---- MODULE Spec2Model ----
(***************************************************************************)
(* A model of pace-analysis' plotting tool (src/src/main.py): the topic    *)
(* key parser, the per-recording pipeline plot_topics (window resolution,  *)
(* extraction loop, flattening, rendering), its wrapper process_bag and    *)
(* the batch driver main.                                                  *)
(*                                                                         *)
(* Strings are sequences of one-character strings, so that the regular     *)
(* expression and the f-string formatting are computed character by        *)
(* character.  Python's None is the empty tuple and a present optional     *)
(* value v is the one-element tuple <<v>>.  Timestamps are integers (one   *)
(* unit is one tick of the recording's clock), so rospy.Time.from_sec and  *)
(* to_sec are exact on them.                                               *)
(***************************************************************************)
EXTENDS Integers, Sequences, FiniteSets, TLC

\* ------------------------------------------------------------- bounds
MaxKeyLen == 5      \* longest topic key handed to the parser on its own
MaxIndex == 11      \* largest index the round trip format -> parse is tried on
MaxRecords == 2     \* longest recording
MaxBindings == 3    \* longest label_map
MaxDim == 2         \* largest vector payload
NJobs == 2          \* jobs in a batch
RandSpan == 2       \* distinct values random.randint is given room for

None == << >>
Some(v) == <<v>>
Get(o) == o[1]

\* ------------------------------------------------------------ strings
NL == "\n"
DigitChars == <<"0", "1", "2", "3", "4", "5", "6", "7", "8", "9">>
IsDigit(c) == \E d \in 1..10 : DigitChars[d] = c
DigitVal(c) == (CHOOSE d \in 1..10 : DigitChars[d] = c) - 1

\* str(i) of a non-negative int, as the f-string on line 137 formats it
RECURSIVE IntToStr(_)
IntToStr(i) ==
  IF i < 10 THEN <<DigitChars[i + 1]>>
  ELSE Append(IntToStr(i \div 10), DigitChars[(i % 10) + 1])

\* int(s) of a string of digits (line 50)
RECURSIVE StrToInt(_)
StrToInt(s) ==
  IF s = << >> THEN 0
  ELSE 10 * StrToInt(SubSeq(s, 1, Len(s) - 1)) + DigitVal(s[Len(s)])

\* ------------------------------------------- parse_topic_with_index
\* The index of the last character of the longest run of digits that starts
\* at position q (q - 1 when there is none): the greedy \d+.
RECURSIVE DigitRunEnd(_, _)
DigitRunEnd(key, q) ==
  IF q <= Len(key) /\ IsDigit(key[q]) THEN DigitRunEnd(key, q + 1) ELSE q - 1

\* key[p..] matches \[(\d+)\]$ ; $ matches at the end of the string and
\* also just before a newline that ends the string.
SuffixMatches(key, p) ==
  /\ p <= Len(key)
  /\ key[p] = "["
  /\ LET r == DigitRunEnd(key, p + 1) IN
       /\ r >= p + 1
       /\ r + 1 <= Len(key)
       /\ key[r + 1] = "]"
       /\ \/ r + 1 = Len(key)
          \/ r + 2 = Len(key) /\ key[Len(key)] = NL

\* Variant of Group1 for the pattern ^(.*?)\[(\d+)\]$, whose group 1 may
\* be empty.
Group1Mut(key) ==
  {i \in 0..Len(key) : /\ \A c \in 1..i : key[c] # NL
                       /\ SuffixMatches(key, i + 1)}

\* The lengths i of group 1 for which ^(.+?) can stop after i characters:
\* at least one character, none of them a newline.
Group1(key) ==
  {i \in 1..Len(key) : /\ \A c \in 1..i : key[c] # NL
                       /\ SuffixMatches(key, i + 1)}

Min(S) == CHOOSE x \in S : \A y \in S : x <= y

\* re.match(r'^(.+?)\[(\d+)\]$', topic_key): the lazy group 1 takes the
\* shortest prefix after which the rest matches.
parse_topic_with_index(topic_key) ==
  LET m == Group1(topic_key) IN
    IF m # {}
    THEN LET i == Min(m)
             r == DigitRunEnd(topic_key, i + 2)
         IN <<SubSeq(topic_key, 1, i), Some(StrToInt(SubSeq(topic_key, i + 2, r)))>>
    ELSE <<topic_key, None>>

\* ----------------------------------------------------- configuration
\* One yaml entry is [rosbag_path, label_map, outpath, graph_range,
\* epoc_time]; label_map is the sequence of <<topic_key, label>> in document
\* order, which is the order the dict of yaml.safe_load iterates in.  The
\* fields topics, slip_regions and legend_loc play no part in extraction.
KeyA == <<"a">>
KeyA1 == <<"a", "[", "1", "]">>
KeyB == <<"b">>
KeyB0 == <<"b", "[", "0", "]">>
KeyPool == {KeyA, KeyA1, KeyB, KeyB0}

LabelOf(key) ==
  CASE key = KeyA -> <<"P">>
    [] key = KeyA1 -> <<"Y">>
    [] key = KeyB -> <<"S">>
    [] OTHER -> <<"Z">>

Range(s) == {s[i] : i \in DOMAIN s}

RECURSIVE InjSeqs(_, _)
InjSeqs(S, n) ==
  IF n = 0 THEN {<< >>}
  ELSE LET R == InjSeqs(S, n - 1) IN
         R \cup UNION {{Append(s, x) : x \in S \ Range(s)} :
                         s \in {t \in R : Len(t) = n - 1}}

LabelMaps ==
  {[i \in 1..Len(ks) |-> <<ks[i], LabelOf(ks[i])>>] :
     ks \in InjSeqs(KeyPool, MaxBindings) \ {<< >>}}

Windows == {<<0, 1>>, <<2, 2>>}
GraphRanges == {None} \cup {Some(w) : w \in Windows}

\* ---------------------------------------------------------- recordings
\* A recording is [corrupt, msgs]; msgs is in the order read_messages yields
\* it, by non-decreasing timestamp.  A message is [topic, t, has_data, data,
\* xyz]: data is the payload's data attribute when it has one, xyz the three
\* axis fields of a payload that has none.  A value is [tag, v] with tag
\* "num" (v the one number), "list" (v the elements) or "None" (v empty).
Topics == {<<"a">>, <<"b">>}
Times == {1, 2}
NoneValue == [tag |-> "None", v |-> << >>]

\* Topic a carries vectors of dimA numbers; topic b carries one number, or,
\* when bXYZ, a structure with axis fields x, y, z and no data attribute.
\* The i-th message of a recording carries numbers that name i and the
\* dimension, so that no two cells of a recording are equal.
MkMsg(topic, t, i, dimA, bXYZ) ==
  IF topic = <<"a">>
  THEN [topic |-> topic, t |-> t, has_data |-> TRUE, xyz |-> << >>,
        data |-> [tag |-> "list", v |-> [k \in 1..dimA |-> 10 * i + k - 1]]]
  ELSE IF bXYZ
  THEN [topic |-> topic, t |-> t, has_data |-> FALSE, data |-> NoneValue,
        xyz |-> <<10 * i + 1, 10 * i + 2, 10 * i + 3>>]
  ELSE [topic |-> topic, t |-> t, has_data |-> TRUE, xyz |-> << >>,
        data |-> [tag |-> "num", v |-> <<10 * i + 5>>]]

RECURSIVE Outlines(_)
Outlines(n) ==
  IF n = 0 THEN {<< >>}
  ELSE LET R == Outlines(n - 1) IN
         R \cup {Append(s, <<tp, t>>) :
                   s \in {u \in R : Len(u) = n - 1},
                   tp \in Topics, t \in Times}

Sorted(o) == \A i \in 1..(Len(o) - 1) : o[i][2] <= o[i + 1][2]

ShapeConfigs ==
  {<<d, FALSE>> : d \in 1..MaxDim} \cup {<<1, TRUE>>}

Recordings ==
  {[corrupt |-> FALSE,
    msgs |-> [i \in 1..Len(o) |-> MkMsg(o[i][1], o[i][2], i, sh[1], sh[2])]] :
     o \in {u \in Outlines(MaxRecords) : Sorted(u)}, sh \in ShapeConfigs}
  \cup {[corrupt |-> TRUE, msgs |-> << >>]}

\* ------------------------------------------------------------- state
VARIABLES
  topic_key,      \* the string handed to parse_topic_with_index
  parsed,         \* what it returned, None before the call
  config,         \* the yaml entries, in order
  data,           \* the data directory: recording of each rosbag_path
  images,         \* the files in the images directory
  mainpc,         \* where main is
  settings_list,  \* the PlotSettings built from config
  job             \* per job, the state of process_bag / plot_topics

vars == <<topic_key, parsed, config, data, images, mainpc, settings_list, job>>
jobvars == <<config, data, images, mainpc, settings_list, job>>

KeyAlphabet == {"a", "[", "]", "0", "1", NL}

RECURSIVE Strings(_, _)
Strings(A, n) ==
  IF n = 0 THEN {<< >>}
  ELSE LET S == Strings(A, n - 1) IN
         S \cup {Append(s, c) : s \in {t \in S : Len(t) = n - 1}, c \in A}

InitParse ==
  /\ topic_key \in Strings(KeyAlphabet, MaxKeyLen)
  /\ parsed = None
  /\ config = << >>
  /\ data = << >>
  /\ images = {}
  /\ mainpc = "off"
  /\ settings_list = << >>
  /\ job = << >>

ParseKey ==
  /\ parsed = None
  /\ parsed' = Some(parse_topic_with_index(topic_key))
  /\ UNCHANGED <<topic_key, jobvars>>

NextParse == ParseKey

SpecParse == InitParse /\ [][NextParse]_vars

\* ------------------------------------------------ PlotSettings, main
RandLo == 100000000
Rand == RandLo..(RandLo + RandSpan - 1)

Stems == {<<"r", "1">>, <<"r", "2">>}
ImagesDir == <<"i", "m", "a", "g", "e", "s", "/">>
PngSuffix == <<".", "p", "n", "g">>

\* PlotSettings.__post_init__: a missing outpath becomes
\* images/<stem>--<random_int>.png (no stem of the model holds a dot, so
\* with_suffix appends); a given one is resolved against images.
PostInit(entry, random_int) ==
  [entry EXCEPT !.outpath =
     IF entry.outpath = None
     THEN ImagesDir \o entry.rosbag_path \o <<"-", "-">> \o IntToStr(random_int)
            \o PngSuffix
     ELSE ImagesDir \o Get(entry.outpath)]

\* The locals of one process_bag / plot_topics call before it starts.
NewJob ==
  [pc |-> "queued", outcome |-> "none", exc |-> "none",
   topic_info |-> << >>, actual_topics |-> {},
   topic_data |-> << >>, time_data |-> << >>,
   t_zero |-> None, msg_iter |-> << >>, reads |-> << >>,
   plot_i |-> 0, plotted |-> << >>, warnings |-> << >>, saved |-> FALSE]

\* -------------------------------------------------------- plot_topics
\* Variant of AddBinding that puts a later binding of a topic first.
AddBindingMut(info, name, pair) ==
  IF \E i \in DOMAIN info : info[i].topic = name
  THEN LET i == CHOOSE i \in DOMAIN info : info[i].topic = name IN
         [info EXCEPT ![i].pairs = <<pair>> \o @]
  ELSE Append(info, [topic |-> name, pairs |-> <<pair>>])

\* Lines 60-65: topic_info maps each topic name, in the order the names
\* first appear in label_map, to its (index, label) pairs in label_map order.
AddBinding(info, name, pair) ==
  IF \E i \in DOMAIN info : info[i].topic = name
  THEN LET i == CHOOSE i \in DOMAIN info : info[i].topic = name IN
         [info EXCEPT ![i].pairs = Append(@, pair)]
  ELSE Append(info, [topic |-> name, pairs |-> <<pair>>])

RECURSIVE BuildTopicInfo(_, _)
BuildTopicInfo(label_map, n) ==
  IF n = 0 THEN << >>
  ELSE LET p == parse_topic_with_index(label_map[n][1]) IN
         AddBinding(BuildTopicInfo(label_map, n - 1), p[1],
                    <<p[2], label_map[n][2]>>)

\* bag.read_messages(topics, start_time, end_time): the messages of the
\* requested topics whose timestamp is within the bounds (both inclusive),
\* in recording order; None is no bound.
read_messages(msgs, topics, start_time, end_time) ==
  SelectSeq(msgs, LAMBDA m :
    /\ m.topic \in topics
    /\ (start_time = None \/ Get(start_time) <= m.t)
    /\ (end_time = None \/ m.t <= Get(end_time)))

\* Lines 80-83: the bounds of the second read, computed from the anchor
\* under the test of line 81.  None is a local that was never bound.
WindowBounds(epoc_time, t_zero, graph_range) ==
  IF epoc_time
  THEN <<Some(t_zero + graph_range[1]), Some(t_zero + graph_range[2])>>
  ELSE <<None, None>>

\* Variant of NextTZero without the "is None" test: every record resets it.
NextTZeroMut(t_zero, t) == Some(t)

\* Lines 104-105: t_zero is set by the first record the loop sees.
NextTZero(t_zero, t) == IF t_zero = None THEN Some(t) ELSE t_zero

\* Variant of StoredValue that makes a 3-vector of the axis fields of a
\* payload without data.
StoredValueMut(msg) ==
  IF msg.has_data THEN msg.data ELSE [tag |-> "list", v |-> msg.xyz]

\* Lines 107-112: the value the loop stores for a message.
StoredValue(msg) ==
  LET value == IF msg.has_data THEN msg.data ELSE NoneValue IN
    IF value.tag = "list" THEN [tag |-> "list", v |-> value.v] ELSE value

\* Line 132, list(zip(*arr)): one column per dimension, as many as the
\* shortest row has; a cell is <<number>>.
Columns(rows) ==
  LET n == Min({Len(rows[k].v) : k \in DOMAIN rows}) IN
    [d \in 1..n |-> [k \in DOMAIN rows |-> <<rows[k].v[d]>>]]

\* Variant of PlotVectorBinding that plots dimension 0 whatever the index.
PlotVectorBindingMut(arr, xs, topic_name, index, label) ==
  IF index = None
  THEN [series |-> [i \in DOMAIN arr |->
                      [label |-> label \o <<" ", "[">> \o IntToStr(i - 1) \o <<"]">>,
                       x |-> xs, y |-> arr[i]]],
        warn |-> << >>]
  ELSE IF Get(index) < Len(arr)
  THEN [series |-> <<[label |-> label, x |-> xs, y |-> arr[1]]>>,
        warn |-> << >>]
  ELSE [series |-> << >>,
        warn |-> <<[kind |-> "out_of_range", topic |-> topic_name, index |-> Get(index)]>>]

\* Lines 134-145: what one binding of a vector-valued topic plots and warns.
PlotVectorBinding(arr, xs, topic_name, index, label) ==
  IF index = None
  THEN [series |-> [i \in DOMAIN arr |->
                      [label |-> label \o <<" ", "[">> \o IntToStr(i - 1) \o <<"]">>,
                       x |-> xs, y |-> arr[i]]],
        warn |-> << >>]
  ELSE IF Get(index) < Len(arr)
  THEN [series |-> <<[label |-> label, x |-> xs, y |-> arr[Get(index) + 1]]>>,
        warn |-> << >>]
  ELSE [series |-> << >>,
        warn |-> <<[kind |-> "out_of_range", topic |-> topic_name, index |-> Get(index)]>>]

\* Variant of PlotScalarBinding that plots the series for an indexed
\* binding too.
PlotScalarBindingMut(values, xs, topic_name, index, label) ==
  [series |-> <<[label |-> label, x |-> xs,
                 y |-> [k \in DOMAIN values |-> values[k].v]]>>,
   warn |-> << >>]

\* Lines 148-153: what one binding of a scalar-valued topic plots and warns.
PlotScalarBinding(values, xs, topic_name, index, label) ==
  IF index = None
  THEN [series |-> <<[label |-> label, x |-> xs,
                      y |-> [k \in DOMAIN values |-> values[k].v]]>>,
        warn |-> << >>]
  ELSE [series |-> << >>,
        warn |-> <<[kind |-> "scalar_index", topic |-> topic_name, index |-> Get(index)]>>]

\* Lines 128-153 for one topic with data: its bindings, in order.
RECURSIVE PlotGroup(_, _, _, _, _)
PlotGroup(values, xs, topic_name, pairs, n) ==
  IF n = 0 THEN [series |-> << >>, warn |-> << >>]
  ELSE LET before == PlotGroup(values, xs, topic_name, pairs, n - 1)
           one == IF values[1].tag = "list"
                  THEN PlotVectorBinding(Columns(values), xs, topic_name,
                                         pairs[n][1], pairs[n][2])
                  ELSE PlotScalarBinding(values, xs, topic_name,
                                         pairs[n][1], pairs[n][2])
       IN [series |-> before.series \o one.series, warn |-> before.warn \o one.warn]

\* Lines 180-181: process_bag catches rosbag's exception and nothing else.
Raise(j, exc) ==
  IF exc = "ROSBagException"
  THEN [j EXCEPT !.pc = "done", !.outcome = "skipped_invalid"]
  ELSE [j EXCEPT !.pc = "raised", !.exc = exc]

\* Lines 100-101: in epoch mode the origin is 0.
EpochOrigin(epoc_time, t_zero) == IF epoc_time THEN Some(0) ELSE t_zero

Unbounded == [start |-> None, end |-> None]

\* ------------------------------------------------------------ actions
\* main, lines 204-207: create the images directory and empty it.
MainPrepare ==
  /\ mainpc = "start"
  /\ images' = {}
  /\ mainpc' = "load"
  /\ UNCHANGED <<topic_key, parsed, config, data, settings_list, job>>

\* main, lines 209-216, load_settings_from_yaml: one PlotSettings per entry,
\* each drawing its own random_int when its outpath is missing.
LoadSettings ==
  /\ mainpc = "load"
  /\ \E r \in [DOMAIN config -> Rand \cup {0}] :
       /\ \A i \in DOMAIN config : (r[i] = 0) <=> (config[i].outpath # None)
       /\ settings_list' = [i \in DOMAIN config |-> PostInit(config[i], r[i])]
  /\ job' = [i \in DOMAIN config |-> NewJob]
  /\ mainpc' = "pool"
  /\ UNCHANGED <<topic_key, parsed, config, data, images>>

\* process_bag, lines 172-177: open the recording and count its messages.
ProcessBagOpen(i) ==
  /\ mainpc = "pool"
  /\ job[i].pc = "queued"
  /\ LET bag == data[settings_list[i].rosbag_path] IN
       job' = [job EXCEPT ![i] =
                 IF bag.corrupt THEN Raise(@, "ROSBagException")
                 ELSE IF Len(bag.msgs) = 0
                 THEN [@ EXCEPT !.pc = "done", !.outcome = "skipped_empty"]
                 ELSE [@ EXCEPT !.pc = "parse"]]
  /\ UNCHANGED <<topic_key, parsed, config, data, images, mainpc, settings_list>>

\* plot_topics, lines 57-70.
ParseLabelMap(i) ==
  /\ mainpc = "pool"
  /\ job[i].pc = "parse"
  /\ LET label_map == settings_list[i].label_map
         info == BuildTopicInfo(label_map, Len(label_map))
         actual == {info[k].topic : k \in DOMAIN info}
     IN job' = [job EXCEPT ![i] =
                  [@ EXCEPT !.pc = "window",
                            !.topic_info = info,
                            !.actual_topics = actual,
                            !.topic_data = [t \in actual |-> << >>],
                            !.time_data = [t \in actual |-> << >>]]]
  /\ UNCHANGED <<topic_key, parsed, config, data, images, mainpc, settings_list>>

\* plot_topics, lines 72-101: the anchor scan and the read that feeds the
\* extraction loop.  reads lists the read_messages calls in order.
ResolveWindow(i) ==
  /\ mainpc = "pool"
  /\ job[i].pc = "window"
  /\ LET s == settings_list[i]
         j == job[i]
         msgs == data[s.rosbag_path].msgs
     IN job' = [job EXCEPT ![i] =
          IF s.graph_range # None
          THEN IF ~s.epoc_time
               THEN LET scan == read_messages(msgs, j.actual_topics, None, None)
                        scanned == [j EXCEPT !.reads = Append(@, Unbounded)]
                    IN IF scan = << >>
                       THEN [scanned EXCEPT !.pc = "done", !.outcome = "no_messages"]
                       ELSE LET t_zero == scan[1].t
                                b == WindowBounds(s.epoc_time, t_zero, Get(s.graph_range))
                                anchored == [scanned EXCEPT !.t_zero = Some(t_zero)]
                            IN IF b[1] = None \/ b[2] = None
                               THEN Raise(anchored, "UnboundLocalError")
                               ELSE [anchored EXCEPT
                                       !.pc = "extract",
                                       !.reads = Append(@, [start |-> b[1], end |-> b[2]]),
                                       !.msg_iter = read_messages(msgs, j.actual_topics, b[1], b[2]),
                                       !.t_zero = EpochOrigin(s.epoc_time, @)]
               ELSE LET start_time == Some(Get(s.graph_range)[1])
                        end_time == Some(Get(s.graph_range)[2])
                    IN [j EXCEPT
                          !.pc = "extract",
                          !.reads = Append(@, [start |-> start_time, end |-> end_time]),
                          !.msg_iter = read_messages(msgs, j.actual_topics, start_time, end_time),
                          !.t_zero = EpochOrigin(s.epoc_time, @)]
          ELSE [j EXCEPT
                  !.pc = "extract",
                  !.reads = Append(@, Unbounded),
                  !.msg_iter = read_messages(msgs, j.actual_topics, None, None),
                  !.t_zero = EpochOrigin(s.epoc_time, @)]]
  /\ UNCHANGED <<topic_key, parsed, config, data, images, mainpc, settings_list>>

\* plot_topics, lines 103-113: one iteration of the extraction loop.
ExtractRecord(i) ==
  /\ mainpc = "pool"
  /\ job[i].pc = "extract"
  /\ job[i].msg_iter # << >>
  /\ LET j == job[i]
         msg == Head(j.msg_iter)
         t_zero == NextTZero(j.t_zero, msg.t)
         dt == msg.t - Get(t_zero)
     IN job' = [job EXCEPT ![i] =
                  [j EXCEPT !.t_zero = t_zero,
                            !.msg_iter = Tail(@),
                            !.topic_data[msg.topic] = Append(@, StoredValue(msg)),
                            !.time_data[msg.topic] = Append(@, dt)]]
  /\ UNCHANGED <<topic_key, parsed, config, data, images, mainpc, settings_list>>

\* plot_topics, lines 115-120: the loop is over; the figure is opened
\* whether or not any data was found.
ExtractEnd(i) ==
  /\ mainpc = "pool"
  /\ job[i].pc = "extract"
  /\ job[i].msg_iter = << >>
  /\ job' = [job EXCEPT ![i] = [@ EXCEPT !.pc = "plot", !.plot_i = 1]]
  /\ UNCHANGED <<topic_key, parsed, config, data, images, mainpc, settings_list>>

\* plot_topics, lines 123-153: one iteration of the loop over topic_info.
PlotTopic(i) ==
  /\ mainpc = "pool"
  /\ job[i].pc = "plot"
  /\ job[i].plot_i <= Len(job[i].topic_info)
  /\ LET j == job[i]
         g == j.topic_info[j.plot_i]
         values == j.topic_data[g.topic]
         xs == j.time_data[g.topic]
     IN job' = [job EXCEPT ![i] =
          IF values = << >>
          THEN [j EXCEPT !.plot_i = @ + 1]
          ELSE IF values[1].tag = "list" /\ \E k \in DOMAIN values : values[k].tag # "list"
          THEN Raise(j, "TypeError")
          ELSE LET out == PlotGroup(values, xs, g.topic, g.pairs, Len(g.pairs)) IN
                 [j EXCEPT !.plot_i = @ + 1,
                           !.plotted = @ \o out.series,
                           !.warnings = @ \o out.warn]]
  /\ UNCHANGED <<topic_key, parsed, config, data, images, mainpc, settings_list>>

\* plot_topics, lines 155-169, and process_bag, line 179: the figure is
\* saved at outpath and the job returns.
Render(i) ==
  /\ mainpc = "pool"
  /\ job[i].pc = "plot"
  /\ job[i].plot_i > Len(job[i].topic_info)
  /\ images' = images \cup {settings_list[i].outpath}
  /\ job' = [job EXCEPT ![i] = [@ EXCEPT !.pc = "done", !.outcome = "plotted", !.saved = TRUE]]
  /\ UNCHANGED <<topic_key, parsed, config, data, mainpc, settings_list>>

\* main, lines 219-220: pool.map returns when every job has ended, and
\* re-raises in main the exception of a job that raised.
PoolMapReturn ==
  /\ mainpc = "pool"
  /\ \A i \in DOMAIN job : job[i].pc \in {"done", "raised"}
  /\ mainpc' = IF \E i \in DOMAIN job : job[i].pc = "raised" THEN "raised" ELSE "done"
  /\ UNCHANGED <<topic_key, parsed, config, data, images, settings_list, job>>

Next ==
  \/ MainPrepare
  \/ LoadSettings
  \/ \E i \in DOMAIN job : ProcessBagOpen(i)
  \/ \E i \in DOMAIN job : ParseLabelMap(i)
  \/ \E i \in DOMAIN job : ResolveWindow(i)
  \/ \E i \in DOMAIN job : ExtractRecord(i)
  \/ \E i \in DOMAIN job : ExtractEnd(i)
  \/ \E i \in DOMAIN job : PlotTopic(i)
  \/ \E i \in DOMAIN job : Render(i)
  \/ PoolMapReturn

\* One job: every label_map, recording, window and time base of the bounds.
Init ==
  /\ topic_key = << >>
  /\ parsed = None
  /\ \E lm \in LabelMaps, gr \in GraphRanges, ep \in BOOLEAN :
       config = <<[rosbag_path |-> <<"r", "1">>, label_map |-> lm,
                   outpath |-> Some(<<"o", "1">> \o PngSuffix),
                   graph_range |-> gr, epoc_time |-> ep]>>
  /\ \E rec \in Recordings : data = [p \in {<<"r", "1">>} |-> rec]
  /\ images = {}
  /\ mainpc = "start"
  /\ settings_list = << >>
  /\ job = << >>

Spec == Init /\ [][Next]_vars

\* A batch: NJobs entries over two recordings, one of them corrupt, with
\* the outpath given or missing and with or without a window.
BatchEntries ==
  {[rosbag_path |-> rp, label_map |-> <<<<KeyA, LabelOf(KeyA)>>>>,
    outpath |-> op, graph_range |-> gr, epoc_time |-> FALSE] :
     rp \in Stems,
     op \in {None, Some(<<"o", "1">> \o PngSuffix)},
     gr \in {None, Some(<<0, 1>>)}}

BatchData ==
  [p \in Stems |->
     IF p = <<"r", "1">>
     THEN [corrupt |-> FALSE,
           msgs |-> <<MkMsg(<<"a">>, 1, 1, 1, FALSE), MkMsg(<<"a">>, 2, 2, 1, FALSE)>>]
     ELSE [corrupt |-> TRUE, msgs |-> << >>]]

InitBatch ==
  /\ topic_key = << >>
  /\ parsed = None
  /\ config \in [1..NJobs -> BatchEntries]
  /\ data = BatchData
  /\ images \in {{}, {ImagesDir \o <<"o", "1">> \o PngSuffix}}
  /\ mainpc = "start"
  /\ settings_list = << >>
  /\ job = << >>

SpecBatch == InitBatch /\ [][Next]_vars

\* ------------------------------------------------------------- claims
\* What each key of KeyPool stands for: <<signal name, index>>.
Meaning(key) ==
  CASE key = KeyA -> <<<<"a">>, None>>
    [] key = KeyA1 -> <<<<"a">>, Some(1)>>
    [] key = KeyB -> <<<<"b">>, None>>
    [] key = KeyB0 -> <<<<"b">>, Some(0)>>

\* The signal names a job requests, from its label_map.
Requested(i) ==
  {Meaning(settings_list[i].label_map[n][1])[1] :
     n \in DOMAIN settings_list[i].label_map}

MsgsOf(i) == data[settings_list[i].rosbag_path].msgs

\* The requested records of job i's recording, in recording order.
Matching(i) ==
  LET req == Requested(i) IN SelectSeq(MsgsOf(i), LAMBDA m : m.topic \in req)

\* The records a window in epoch mode leaves to the extraction loop.
Feed(i) ==
  LET s == settings_list[i]
      all == Matching(i)
  IN IF s.graph_range # None /\ s.epoc_time
     THEN SelectSeq(all, LAMBDA m :
            Get(s.graph_range)[1] <= m.t /\ m.t <= Get(s.graph_range)[2])
     ELSE all

\* The records the extraction loop of job i has been through so far.
Consumed(i) ==
  LET feed == Feed(i) IN SubSeq(feed, 1, Len(feed) - Len(job[i].msg_iter))

OfTopic(ms, tp) == SelectSeq(ms, LAMBDA m : m.topic = tp)

Extracting(i) ==
  job[i].pc \in {"extract", "plot"} \/ job[i].outcome = "plotted"

\* C1: once the window is resolved, the read that feeds the extraction was
\* issued unbounded when there is no graph_range, with bounds (a, b) in
\* epoch mode, and with bounds (t_anchor + a, t_anchor + b) after the anchor
\* scan in relative mode, t_anchor being the first matching record's time.
C1_WindowBounds ==
  \A i \in DOMAIN job :
    job[i].reads # << >> =>
      LET s == settings_list[i]
          reads == job[i].reads
      IN IF s.graph_range = None
         THEN reads = <<Unbounded>>
         ELSE LET a == Get(s.graph_range)[1]
                  b == Get(s.graph_range)[2]
              IN IF s.epoc_time
                 THEN reads = <<[start |-> Some(a), end |-> Some(b)]>>
                 ELSE Matching(i) # << >> =>
                        reads = <<Unbounded,
                                  [start |-> Some(Matching(i)[1].t + a),
                                   end |-> Some(Matching(i)[1].t + b)]>>

\* C2: a job whose recording is not empty and holds no record of a requested
\* signal never writes its image and never raises.
C2_NoMatchNoImage ==
  \A i \in DOMAIN job :
    (/\ ~data[settings_list[i].rosbag_path].corrupt
     /\ MsgsOf(i) # << >>
     /\ Matching(i) = << >>)
    => /\ ~job[i].saved
       /\ settings_list[i].outpath \notin images
       /\ job[i].pc # "raised"

\* C3: no failure of a job escapes process_bag, and pool.map does not raise
\* in main.
C3_JobIsolation ==
  /\ \A i \in DOMAIN job : job[i].pc # "raised"
  /\ mainpc # "raised"

\* C10: no two jobs of a batch resolve to the same output path.
C10_DistinctOutpaths ==
  \A i, k \in DOMAIN settings_list :
    i # k => settings_list[i].outpath # settings_list[k].outpath

\* A key is s + "[" + digits + "]" from position p on: key[p] is the
\* bracket, digits are one or more, and the key ends with "]".
EndsWithIndexAt(key, p) ==
  /\ p >= 1
  /\ p + 2 <= Len(key)
  /\ key[p] = "["
  /\ key[Len(key)] = "]"
  /\ \A c \in (p + 1)..(Len(key) - 1) : IsDigit(key[c])

\* The keys with a well-formed suffix after a name the pattern accepts: a
\* name of at least one character without a line break, the suffix, and
\* possibly one final line break.
AcceptedShape(key) ==
  LET body == IF key # << >> /\ key[Len(key)] = NL
              THEN SubSeq(key, 1, Len(key) - 1) ELSE key
  IN \E p \in 2..Len(body) :
       /\ EndsWithIndexAt(body, p)
       /\ \A c \in 1..(p - 1) : body[c] # NL

\* C4 as stated: s + "[" + digits(k) + "]" parses to (s, k) for every s, the
\* empty one included, and every key that does not end in "[" digits "]"
\* parses to (key, absent).
C4_ParseAnyName ==
  parsed # None =>
    /\ \A k \in 0..MaxIndex : \A p \in 1..Len(topic_key) :
         topic_key = SubSeq(topic_key, 1, p - 1) \o <<"[">> \o IntToStr(k) \o <<"]">>
           => Get(parsed) = <<SubSeq(topic_key, 1, p - 1), Some(k)>>
    /\ (~\E p \in 1..Len(topic_key) : EndsWithIndexAt(topic_key, p))
         => Get(parsed) = <<topic_key, None>>

\* C4 amended: s + "[" + digits(k) + "]" parses to (s, k) for every s of at
\* least one character and without a line break (s may hold brackets); a key
\* that is not such a name, then "[" digits "]", then at most one final line
\* break, parses to (key, absent); "[" digits "]" alone is one of those.
C4_Parse ==
  parsed # None =>
    /\ \A k \in 0..MaxIndex : \A p \in 2..Len(topic_key) :
         (/\ topic_key = SubSeq(topic_key, 1, p - 1) \o <<"[">> \o IntToStr(k) \o <<"]">>
          /\ \A c \in 1..(p - 1) : topic_key[c] # NL)
           => Get(parsed) = <<SubSeq(topic_key, 1, p - 1), Some(k)>>
    /\ ~AcceptedShape(topic_key) => Get(parsed) = <<topic_key, None>>

\* A name that itself holds a bracket, with index 10.
C4_Witness ==
  /\ topic_key = <<"[", "[", "1", "0", "]">>
  /\ parsed = Some(<<<<"[">>, Some(10)>>)

\* The bindings of job i's label_map, by position n: Parsed(i)[n] is
\* <<signal name, index>> of binding n.
LM(i) == settings_list[i].label_map
Parsed(i) == [n \in DOMAIN LM(i) |-> Meaning(LM(i)[n][1])]
BLabel(i, n) == LM(i)[n][2]

\* The plotted series that carry binding n's label (the labels of a
\* label_map differ in their first character).
SeriesOf(i, n) ==
  SelectSeq(job[i].plotted, LAMBDA sr : sr.label[1] = BLabel(i, n)[1])

WarningsOf(i, kind, tp, index) ==
  SelectSeq(job[i].warnings, LAMBDA w :
    w.kind = kind /\ w.topic = tp /\ w.index = index)

\* C5: for a vector-valued series of dimension dim, a binding without index
\* gives dim series "<label> [d]", d = 0..dim-1, series d holding dimension
\* d; a binding with index k < dim gives one series under the bare label
\* holding dimension k; a binding with index k >= dim gives no series and
\* one warning; nothing raises once flattening has begun.
C5_FlattenVector ==
  \A i \in DOMAIN job :
    /\ job[i].pc = "raised" => job[i].plot_i = 0
    /\ job[i].outcome = "plotted" =>
         LET bs == Parsed(i) IN
         \A n \in DOMAIN bs :
           LET tp == bs[n][1]
               index == bs[n][2]
               rows == job[i].topic_data[tp]
               xs == job[i].time_data[tp]
               ser == SeriesOf(i, n)
           IN (rows # << >> /\ \A r \in DOMAIN rows : rows[r].tag = "list") =>
                LET dim == Len(rows[1].v)
                    col(d) == [r \in DOMAIN rows |-> <<rows[r].v[d]>>]
                IN IF index = None
                   THEN /\ Len(ser) = dim
                        /\ \A d \in 1..dim :
                             ser[d] = [label |-> BLabel(i, n) \o <<" ", "[">>
                                                   \o IntToStr(d - 1) \o <<"]">>,
                                       x |-> xs, y |-> col(d)]
                   ELSE LET k == Get(index) IN
                          IF k < dim
                          THEN /\ ser = <<[label |-> BLabel(i, n), x |-> xs, y |-> col(k + 1)]>>
                               /\ WarningsOf(i, "out_of_range", tp, k) = << >>
                          ELSE /\ ser = << >>
                               /\ Len(WarningsOf(i, "out_of_range", tp, k)) = 1

\* A 2-vector topic plotted whole and by its index 1.
C5_Witness ==
  \E i \in DOMAIN job :
    /\ job[i].outcome = "plotted"
    /\ \E p, q \in DOMAIN job[i].plotted :
         /\ job[i].plotted[p].label = <<"P", " ", "[", "1", "]">>
         /\ job[i].plotted[q].label = <<"Y">>
         /\ Len(job[i].plotted[q].y) = 2
         /\ job[i].plotted[q].y = job[i].plotted[p].y

\* C6: for a scalar-valued series, a binding without index gives one series
\* with its label and the series' values; a binding with an index gives no
\* series and one warning, and nothing raises.
C6_FlattenScalar ==
  \A i \in DOMAIN job :
    /\ job[i].pc = "raised" => job[i].plot_i = 0
    /\ job[i].outcome = "plotted" =>
         LET bs == Parsed(i) IN
         \A n \in DOMAIN bs :
           LET tp == bs[n][1]
               index == bs[n][2]
               rows == job[i].topic_data[tp]
               xs == job[i].time_data[tp]
               ser == SeriesOf(i, n)
           IN (rows # << >> /\ \A r \in DOMAIN rows : rows[r].tag = "num") =>
                IF index = None
                THEN /\ ser = <<[label |-> BLabel(i, n), x |-> xs,
                                 y |-> [r \in DOMAIN rows |-> rows[r].v]]>>
                     /\ \A w \in Range(job[i].warnings) :
                          w.topic = tp =>
                            /\ w.kind = "scalar_index"
                            /\ \E m \in DOMAIN bs : bs[m] = <<tp, Some(w.index)>>
                ELSE /\ ser = << >>
                     /\ Len(WarningsOf(i, "scalar_index", tp, Get(index))) = 1

\* A scalar topic of two records bound once without and once with an index.
C6_Witness ==
  \E i \in DOMAIN job :
    /\ job[i].outcome = "plotted"
    /\ \E p \in DOMAIN job[i].plotted :
         /\ job[i].plotted[p].label = <<"S">>
         /\ Len(job[i].plotted[p].y) = 2
         /\ job[i].plotted[p].y[1] # << >>
    /\ Len(WarningsOf(i, "scalar_index", <<"b">>, 0)) = 1

NonDecreasing(xs) == \A k \in 1..(Len(xs) - 1) : xs[k] <= xs[k + 1]

\* C7: in epoch mode t0 is 0 and a point's time is its record's timestamp;
\* in relative mode t0, once set, is the timestamp of the first record of a
\* requested signal in read order, and a point's time is t - t0: the first
\* point is at 0, no time is negative and each series' times do not
\* decrease.
C7_TimeOrigin ==
  \A i \in DOMAIN job :
    LET s == settings_list[i]
        j == job[i]
    IN /\ (~s.epoc_time /\ j.t_zero # None) => j.t_zero = Some(Matching(i)[1].t)
       /\ Extracting(i) =>
            LET cons == Consumed(i) IN
            /\ s.epoc_time => j.t_zero = Some(0)
            /\ (~s.epoc_time /\ cons = << >>) => j.t_zero = None
            /\ (~s.epoc_time /\ cons # << >>) =>
                 /\ j.t_zero = Some(cons[1].t)
                 /\ j.time_data[cons[1].topic][1] = 0
            /\ \A tp \in DOMAIN j.time_data :
                 LET ms == OfTopic(cons, tp) IN
                   /\ Len(j.time_data[tp]) = Len(ms)
                   /\ \A k \in DOMAIN ms :
                        j.time_data[tp][k] =
                          IF s.epoc_time THEN ms[k].t ELSE ms[k].t - cons[1].t
                   /\ \A k \in DOMAIN ms : j.time_data[tp][k] >= 0
                   /\ NonDecreasing(j.time_data[tp])

\* Relative mode, two records one tick apart: the origin stays at the first.
C7_Witness ==
  \E i \in DOMAIN job :
    /\ ~settings_list[i].epoc_time
    /\ job[i].outcome = "plotted"
    /\ job[i].t_zero = Some(1)
    /\ \E tp \in DOMAIN job[i].time_data : job[i].time_data[tp] = <<0, 1>>

\* The position in label_map of the binding a plotted series comes from.
Pos(i, sr) == CHOOSE n \in DOMAIN LM(i) : BLabel(i, n)[1] = sr.label[1]

\* The position in label_map of the first binding of binding n's signal.
FirstOfSignal(bs, n) == Min({m \in DOMAIN bs : bs[m][1] = bs[n][1]})

\* Binding n is one flattening gives series for: its signal has data and
\* its index, if any, is within the vector.
Emits(i, bs, n) ==
  LET rows == job[i].topic_data[bs[n][1]] IN
    /\ rows # << >>
    /\ IF rows[1].tag = "list"
       THEN bs[n][2] = None \/ Get(bs[n][2]) < Len(rows[1].v)
       ELSE bs[n][2] = None

\* C8 as stated: the plotted series follow the order of their bindings in
\* label_map, and every binding that gives series is plotted.
C8_LabelMapOrder ==
  \A i \in DOMAIN job :
    job[i].outcome = "plotted" =>
      LET bs == Parsed(i)
          pos == [p \in DOMAIN job[i].plotted |-> Pos(i, job[i].plotted[p])]
      IN /\ \A p \in 1..(Len(pos) - 1) : pos[p] <= pos[p + 1]
         /\ \A n \in DOMAIN bs : Emits(i, bs, n) => \E p \in DOMAIN pos : pos[p] = n

\* C8 amended: the plotted series are grouped by signal, the signals in the
\* order of their first binding in label_map and the bindings of one signal
\* in label_map order; every binding that gives series is plotted, also
\* when several bindings target one signal.
C8_GroupedOrder ==
  \A i \in DOMAIN job :
    job[i].outcome = "plotted" =>
      LET bs == Parsed(i)
          pos == [p \in DOMAIN job[i].plotted |-> Pos(i, job[i].plotted[p])]
          first == [n \in DOMAIN bs |-> FirstOfSignal(bs, n)]
      IN /\ \A p \in 1..(Len(pos) - 1) :
              \/ first[pos[p]] < first[pos[p + 1]]
              \/ first[pos[p]] = first[pos[p + 1]] /\ pos[p] <= pos[p + 1]
         /\ \A n \in DOMAIN bs : Emits(i, bs, n) => \E p \in DOMAIN pos : pos[p] = n

\* Bindings a, b, a[1] over a 2-vector a and a topic b, both with data: the
\* series of a[1] comes before the series of b.
C8_Witness ==
  \E i \in DOMAIN job :
    /\ job[i].outcome = "plotted"
    /\ Len(LM(i)) = 3
    /\ LM(i)[1][1] = KeyA /\ LM(i)[2][1] = KeyB /\ LM(i)[3][1] = KeyA1
    /\ Len(job[i].plotted) = 4
    /\ job[i].plotted[3].label = <<"Y">>
    /\ job[i].plotted[4].label = <<"S">>

\* C9 as stated: the loop stores (t - t0, value) for a numeric payload,
\* (t - t0, list of values) for a sequence payload, and for a payload with
\* three axis fields and no data value the 3-vector of the fields, timed t.
C9_PayloadsWithAxes ==
  \A i \in DOMAIN job :
    Extracting(i) =>
      LET cons == Consumed(i) IN
      \A tp \in DOMAIN job[i].topic_data :
        LET ms == OfTopic(cons, tp)
            j == job[i]
        IN /\ Len(j.topic_data[tp]) = Len(ms)
           /\ Len(j.time_data[tp]) = Len(ms)
           /\ \A k \in DOMAIN ms :
                IF ms[k].has_data
                THEN /\ j.topic_data[tp][k] = ms[k].data
                     /\ j.time_data[tp][k] = ms[k].t - Get(j.t_zero)
                ELSE /\ j.topic_data[tp][k] = [tag |-> "list", v |-> ms[k].xyz]
                     /\ j.time_data[tp][k] = ms[k].t

\* C9 amended: the loop stores (t - t0, value) for a numeric payload and
\* (t - t0, list of values) for a sequence payload; for a payload with three
\* axis fields and no data value it stores (t - t0, None): no vector is
\* synthesized and the time is relative like every other.
C9_Payloads ==
  \A i \in DOMAIN job :
    Extracting(i) =>
      LET cons == Consumed(i) IN
      \A tp \in DOMAIN job[i].topic_data :
        LET ms == OfTopic(cons, tp)
            j == job[i]
        IN /\ Len(j.topic_data[tp]) = Len(ms)
           /\ Len(j.time_data[tp]) = Len(ms)
           /\ \A k \in DOMAIN ms :
                /\ j.time_data[tp][k] = ms[k].t - Get(j.t_zero)
                /\ j.topic_data[tp][k] = IF ms[k].has_data THEN ms[k].data ELSE NoneValue

\* Relative mode, an axis payload at t = 2 after the origin at t = 1.
C9_Witness ==
  \E i \in DOMAIN job :
    /\ ~settings_list[i].epoc_time
    /\ job[i].outcome = "plotted"
    /\ job[i].t_zero = Some(1)
    /\ \E k \in DOMAIN MsgsOf(i) : ~MsgsOf(i)[k].has_data /\ MsgsOf(i)[k].t = 2
    /\ <<"b">> \in DOMAIN job[i].topic_data
    /\ job[i].topic_data[<<"b">>] = <<NoneValue, NoneValue>>
    /\ job[i].time_data[<<"b">>] = <<0, 1>>

====
